---------------------------- MODULE Spec2Model ----------------------------
(***************************************************************************)
(* deja-dup-auto-ignore: the directory walk of src/traverse.rs, the scoped *)
(* matcher stack of src/stack_vec.rs and the root loop and marker-writing  *)
(* callback of src/main.rs.                                                *)
(*                                                                         *)
(* A path is a sequence of components.  The file system is a fixed small   *)
(* tree; which directories carry a .gitignore (and with which rules),      *)
(* which carry a marker file, the include list, the exclude list and the   *)
(* dry-run flag are chosen in Init.                                        *)
(***************************************************************************)
EXTENDS Naturals, Sequences, FiniteSets

VARIABLES
    gitignoreFile,    \* directory -> content of its .gitignore file
    markers,          \* directory -> marker file names present in it
    include_paths,    \* main: the include list read from the configuration
    exclude_paths,    \* main: the exclude list read from the configuration
    dry_run,          \* main: args.dry_run
    idx,              \* main: position of the for loop over include_paths
    pc,               \* "main" | "call" | "loop" | "unwind" | "done" | "failed"
    arg,              \* the pending traverse call: [dir, exclude_paths]
    gitignore_stack,  \* find_directory_to_ignore: the Vec<Gitignore>
    frames,           \* the traverse calls in progress, outermost first
    reported,         \* the callback invocations so far: <<[run, dir], ...>>
    visited,          \* <<run, dir>>: traverse was called for dir
    listed,           \* <<run, dir>>: read_dir(dir) was performed
    built,            \* <<run, dir>>: dir's .gitignore was handed to the builder
    vec,              \* stack_vec: the Vec a StackVec borrows
    scopes,           \* stack_vec: the live StackVecs over vec, outermost first;
                      \* pushed is the field, base and own record the vector
                      \* the StackVec was made over and the values it pushed
    dropped,          \* stack_vec: what the last drop of a StackVec did
    file_type,        \* entry -> "dir" | "file"
    faults,           \* the reads that fail: read_dir of a directory, the read
                      \* of an entry, the file_type of an entry
    markers0,         \* the markers as they were when the current walk began
    previous          \* what an earlier run of the program left behind

vars == <<gitignoreFile, markers, include_paths, exclude_paths, dry_run, idx,
          pc, arg, gitignore_stack, frames, reported, visited, listed, built,
          vec, scopes, dropped, file_type, faults, markers0, previous>>

walkVars == <<gitignoreFile, markers, include_paths, exclude_paths, dry_run,
              idx, pc, arg, gitignore_stack, frames, reported, visited,
              listed, built, file_type, faults, markers0, previous>>

svVars == <<vec, scopes, dropped>>

envVars == <<file_type, faults, previous>>

-----------------------------------------------------------------------------
(* Bounds *)

\* longest include list
MaxRoots == 2
\* longest exclude list
MaxExclude == 1
\* longest initial vector handed to the outermost StackVec
MaxInitLen == 2
\* deepest nesting of StackVecs
MaxScopes == 3
\* most pushes made through one StackVec
MaxPush == 2

-----------------------------------------------------------------------------
(* The file system *)

R       == <<"r">>
RA      == <<"r", "a">>
RAT     == <<"r", "a", "target">>
RATY    == <<"r", "a", "target", "y">>
RAY     == <<"r", "a", "y">>
RY      == <<"r", "y">>
RYC     == <<"r", "y", "ccache">>
RGit    == <<"r", ".git">>
RGitT   == <<"r", ".git", "target">>
Link    == <<"link">>
Missing == <<"missing">>

\* the directories of the tree
Dirs == {R, RA, RAT, RATY, RY, RYC, RGit, RGitT}

\* the plain files of the tree (.gitignore and marker files are kept apart,
\* in gitignoreFile and markers; as directory entries they are plain files too)
Files == {RAY}

Nodes == Dirs \cup Files

\* the characters of every file name of the tree
Chars(name) ==
    CASE name = "target" -> <<"t", "a", "r", "g", "e", "t">>
      [] name = ".git"   -> <<".", "g", "i", "t">>
      [] name = "ccache" -> <<"c", "c", "a", "c", "h", "e">>
      [] OTHER           -> <<name>>

file_name(path) == path[Len(path)]

\* Path::starts_with: base is a component-wise prefix of path
starts_with(path, base) ==
    /\ Len(base) <= Len(path)
    /\ SubSeq(path, 1, Len(base)) = base

\* fs::canonicalize: symbolic links resolved, Err for a path that does not exist
canonicalize(path) ==
    IF path = Link THEN [ok |-> TRUE, path |-> RGit]
    ELSE IF path \in Nodes THEN [ok |-> TRUE, path |-> path]
    ELSE [ok |-> FALSE, path |-> <<>>]

\* the entries fs::read_dir yields for dir
Entries(dir) == {p \in Nodes : Len(p) = Len(dir) + 1 /\ starts_with(p, dir)}

\* every order in which read_dir may yield the entries
Orders(S) ==
    {s \in [1..Cardinality(S) -> S] : \A i, j \in DOMAIN s : s[i] = s[j] => i = j}

-----------------------------------------------------------------------------
(* .gitignore files and their matchers *)

Rule(pat, neg, dirOnly) == [pat |-> pat, neg |-> neg, dirOnly |-> dirOnly]

NoFile     == [exists |-> FALSE, ok |-> TRUE, rules |-> <<>>]
GiFile(rs) == [exists |-> TRUE, ok |-> TRUE, rules |-> rs]
BadFile    == [exists |-> TRUE, ok |-> FALSE, rules |-> <<>>]

GTarget    == GiFile(<<Rule("target", FALSE, TRUE), Rule("ccache", FALSE, FALSE)>>)
GY         == GiFile(<<Rule("y", FALSE, FALSE)>>)
GNegTarget == GiFile(<<Rule("target", TRUE, FALSE)>>)
GTargetNeg == GiFile(<<Rule("target", FALSE, TRUE), Rule("target", TRUE, FALSE)>>)
GAll       == GiFile(<<Rule(".git", FALSE, FALSE), Rule("target", FALSE, TRUE),
                       Rule("y", FALSE, TRUE)>>)

\* one glob of a matcher applies to path: the path lies under the matcher's
\* root, a pattern without a slash is matched against the last component, and
\* a pattern written with a trailing slash applies to directories only
RuleApplies(gi, rule, path, is_dir) ==
    /\ starts_with(path, gi.root)
    /\ Len(path) > Len(gi.root)
    /\ rule.pat = file_name(path)
    /\ (rule.dirOnly => is_dir)

\* Gitignore::matched: the last glob of the file that applies decides
matched(gi, path, is_dir) ==
    LET hits == {i \in DOMAIN gi.rules : RuleApplies(gi, gi.rules[i], path, is_dir)}
    IN  IF hits = {} THEN "None"
        ELSE LET last == CHOOSE i \in hits : \A j \in hits : j <= i
             IN  IF gi.rules[last].neg THEN "Whitelist" ELSE "Ignore"

is_ignore(m) == m = "Ignore"

\* a builder whose error is dropped: the matcher is used as far as it got
maybe_build_gitignore_lenient(dir, file) ==
    [err |-> FALSE, some |-> file.exists, gi |-> [root |-> dir, rules |-> file.rules]]

\* maybe_build_gitignore: Ok(None) without a .gitignore, else the built
\* matcher rooted at dir, or the builder's error
maybe_build_gitignore(dir, file) ==
    IF ~file.exists THEN [err |-> FALSE, some |-> FALSE, gi |-> [root |-> dir, rules |-> <<>>]]
    ELSE [err |-> ~file.ok, some |-> file.ok, gi |-> [root |-> dir, rules |-> file.rules]]

-----------------------------------------------------------------------------
(* stack_vec.rs *)

\* a push that forgets to count
SVPushUncounted(sv, value) == [vec |-> Append(sv.vec, value), pushed |-> sv.pushed]

\* StackVec::push
SVPush(sv, value) == [vec |-> Append(sv.vec, value), pushed |-> sv.pushed + 1]

RECURSIVE SVDropLoop(_)
\* Drop for StackVec: while pushed > 0 { vec.pop(); pushed -= 1 }
SVDropLoop(sv) ==
    IF sv.pushed > 0
    THEN SVDropLoop([vec |-> IF Len(sv.vec) = 0 THEN sv.vec
                             ELSE SubSeq(sv.vec, 1, Len(sv.vec) - 1),
                     pushed |-> sv.pushed - 1])
    ELSE sv

\* a drop that pops nothing
SVDropNothing(sv) == sv.vec

\* a drop whose loop stops one entry early: while pushed > 1
SVDropKeepsOne(sv) ==
    IF sv.pushed > 1 THEN SVDropLoop([vec |-> sv.vec, pushed |-> sv.pushed - 1]).vec
    ELSE sv.vec

\* the vector a dropped StackVec leaves behind
SVDrop(sv) == SVDropLoop(sv).vec

-----------------------------------------------------------------------------
(* main.rs: the callback *)

WellKnown ==
    {"node_modules", "venv", ".venv", ".gradle", "target", "build", "out", "dist"}

\* str::contains over the characters of the name
Contains(cs, sub) ==
    \E i \in 0..Len(cs) :
        /\ i + Len(sub) <= Len(cs)
        /\ SubSeq(cs, i + 1, i + Len(sub)) = sub

\* the marker file the callback creates for a directory of this name
file_to_create(name) ==
    IF name \in WellKnown THEN ".deja-dup-ignore"
    ELSE IF Contains(Chars(name), <<"c", "a", "c", "h", "e">>) THEN "CACHEDIR.TAG"
    ELSE "none"

\* the markers after the callback ran for path; created: File::create succeeded
cb(ms, path, dry, created) ==
    IF dry \/ file_to_create(file_name(path)) = "none" \/ ~created
    THEN ms
    ELSE [ms EXCEPT ![path] = @ \cup {file_to_create(file_name(path))}]

-----------------------------------------------------------------------------
(* traverse.rs: the steps of one traverse call *)

RECURSIVE ExcludeLoopEqualOnly(_, _, _, _)
\* the loop with the test for a directory inside an excluded path left out
ExcludeLoopEqualOnly(dir, excl, i, next) ==
    IF i > Len(excl) THEN [skip |-> FALSE, next |-> next]
    ELSE IF dir = excl[i]
         THEN [skip |-> TRUE, next |-> next]
    ELSE IF starts_with(excl[i], dir)
         THEN ExcludeLoopEqualOnly(dir, excl, i + 1, Append(next, excl[i]))
    ELSE ExcludeLoopEqualOnly(dir, excl, i + 1, next)

RECURSIVE ExcludeLoopKeepAll(_, _, _, _)
\* a loop that hands every exclude path on to the entries
ExcludeLoopKeepAll(dir, excl, i, next) ==
    IF i > Len(excl) THEN [skip |-> FALSE, next |-> next]
    ELSE IF dir = excl[i] \/ starts_with(dir, excl[i])
         THEN [skip |-> TRUE, next |-> next]
    ELSE ExcludeLoopKeepAll(dir, excl, i + 1, Append(next, excl[i]))

RECURSIVE ExcludeLoop(_, _, _, _)
\* the loop over exclude_paths: skip reports the early return,
\* next the next_exclude_paths collected so far
ExcludeLoop(dir, excl, i, next) ==
    IF i > Len(excl) THEN [skip |-> FALSE, next |-> next]
    ELSE IF dir = excl[i] \/ starts_with(dir, excl[i])
         THEN [skip |-> TRUE, next |-> next]
    ELSE IF starts_with(excl[i], dir)
         THEN ExcludeLoop(dir, excl, i + 1, Append(next, excl[i]))
    ELSE ExcludeLoop(dir, excl, i + 1, next)

\* a marker check that forgets .deja-dup-ignore
has_marker_cachedir_only(ms, dir) == "CACHEDIR.TAG" \in ms[dir]

\* a marker check that forgets CACHEDIR.TAG
has_marker_deja_dup_only(ms, dir) == ".deja-dup-ignore" \in ms[dir]

\* dir.join(".deja-dup-ignore").exists() || dir.join("CACHEDIR.TAG").exists()
has_marker(ms, dir) ==
    ".deja-dup-ignore" \in ms[dir] \/ "CACHEDIR.TAG" \in ms[dir]

\* a loop that asks the innermost matcher only
is_ignored_last_only(stack, dir) ==
    stack # <<>> /\ is_ignore(matched(stack[Len(stack)], dir, TRUE))

\* a loop that asks the outermost matcher only
is_ignored_first_only(stack, dir) ==
    stack # <<>> /\ is_ignore(matched(stack[1], dir, TRUE))

\* the loop over gitignore_stack
is_ignored(stack, dir) ==
    \E i \in DOMAIN stack : is_ignore(matched(stack[i], dir, TRUE))

\* the checks with the ignore check moved before the marker check
OutcomeIgnoreFirst(dir, excl, ms, stack, file) ==
    IF ExcludeLoop(dir, excl, 1, <<>>).skip THEN "excluded"
    ELSE IF is_ignored(stack, dir) THEN "ignored"
    ELSE IF has_marker(ms, dir) THEN "marked"
    ELSE IF maybe_build_gitignore(dir, file).err THEN "build_failed"
    ELSE "descend"

\* how far the call for dir gets before it returns or lists dir
Outcome(dir, excl, ms, stack, file) ==
    IF ExcludeLoop(dir, excl, 1, <<>>).skip THEN "excluded"
    ELSE IF has_marker(ms, dir) THEN "marked"
    ELSE IF is_ignored(stack, dir) THEN "ignored"
    ELSE IF maybe_build_gitignore(dir, file).err THEN "build_failed"
    ELSE "descend"

\* the early returns with the one after cb(dir) left out
StopsNotAfterCallback(outcome) == outcome \in {"excluded", "marked"}

\* the outcomes after which the call returns at once (lines 30, 41 and 54)
Stops(outcome) == outcome \in {"excluded", "marked", "ignored"}

Top == frames[Len(frames)]

Pop(s) == SubSeq(s, 1, Len(s) - 1)

\* a traverse call returned Ok to its caller: the enclosing traverse call goes
\* on with its entries, find_directory_to_ignore returns to main's loop
ReturnOk(fs) ==
    IF fs = <<>> THEN pc' = "main" /\ idx' = idx + 1
    ELSE pc' = "loop" /\ idx' = idx

\* a traverse call returned Err to its caller: `?` hands it on
ReturnErr(fs) ==
    /\ pc' = IF fs = <<>> THEN "failed" ELSE "unwind"
    /\ idx' = idx

\* a read_dir error handed on to the caller
OnReadDirErrorPropagate(fs) == ReturnErr(fs)

\* traverse, lines 64-67: read_dir failed; the warning is printed and the
\* call returns Ok(())
OnReadDirError(fs) == ReturnOk(fs)

\* the call for dir began; marked records whether dir held a marker file then
Visit(dir) ==
    visited' = visited \cup
        {[run |-> idx, dir |-> dir, marked |-> markers[dir] # {}]}

\* a loop that goes through the entries last to first
IterateBackwards(entries) ==
    [i \in DOMAIN entries |-> entries[Len(entries) + 1 - i]]

\* for entry in entries: the entries are gone through in the order read
Iterate(entries) == entries

\* traverse, lines 57-68: the StackVec is made, dir's matcher built and
\* pushed, and dir listed; a matcher that cannot be built ends the call
BuildAndList(dir, excl) ==
    LET b  == maybe_build_gitignore(dir, gitignoreFile[dir])
        s0 == [vec |-> gitignore_stack, pushed |-> 0]
        sv == IF b.some THEN SVPush(s0, b.gi) ELSE s0
    IN  /\ built' = IF gitignoreFile[dir].exists
                    THEN built \cup {<<idx, dir>>} ELSE built
        /\ IF b.err
           THEN /\ gitignore_stack' = SVDrop(s0)
                /\ ReturnErr(frames)
                /\ UNCHANGED <<frames, listed>>
           ELSE /\ gitignore_stack' = sv.vec
                /\ \E entries \in Orders(Entries(dir)) :
                       frames' = Append(frames,
                           [dir     |-> dir,
                            excl    |-> ExcludeLoop(dir, excl, 1, <<>>).next,
                            read    |-> entries,
                            entries |-> Iterate(entries),
                            pushed  |-> sv.pushed])
                /\ listed' = listed \cup {<<idx, dir>>}
                /\ pc' = "loop"
                /\ idx' = idx

\* what the call does after its checks came out as outcome
Proceed(outcome) ==
    IF Stops(outcome)
    THEN /\ ReturnOk(frames)
         /\ UNCHANGED <<gitignore_stack, frames, listed, built>>
    ELSE BuildAndList(arg.dir, arg.exclude_paths)

CallOutcome ==
    Outcome(arg.dir, arg.exclude_paths, markers, gitignore_stack,
            gitignoreFile[arg.dir])

\* traverse, lines 26-34: dir is excluded
TraverseExcluded ==
    /\ pc = "call"
    /\ CallOutcome = "excluded"
    /\ Visit(arg.dir)
    /\ Proceed("excluded")
    /\ UNCHANGED <<gitignoreFile, markers, include_paths, exclude_paths, dry_run,
                   arg, reported, svVars,
                   envVars, markers0>>

\* traverse, lines 36-42: dir holds a marker file
TraverseMarked ==
    /\ pc = "call"
    /\ CallOutcome = "marked"
    /\ Visit(arg.dir)
    /\ Proceed("marked")
    /\ UNCHANGED <<gitignoreFile, markers, include_paths, exclude_paths, dry_run,
                   arg, reported, svVars,
                   envVars, markers0>>

\* traverse, lines 44-55: a matcher of the stack ignores dir; cb(dir)
TraverseIgnored ==
    /\ pc = "call"
    /\ CallOutcome = "ignored"
    /\ Visit(arg.dir)
    /\ reported' = Append(reported, [run |-> idx, dir |-> arg.dir])
    /\ \E created \in BOOLEAN :
           /\ (dry_run \/ file_to_create(file_name(arg.dir)) = "none") => created
           /\ markers' = cb(markers, arg.dir, dry_run, created)
    /\ Proceed("ignored")
    /\ UNCHANGED <<gitignoreFile, include_paths, exclude_paths, dry_run, arg,
                   svVars,
                   envVars, markers0>>

\* traverse, lines 57-60: dir's .gitignore cannot be built
TraverseBuildFailed ==
    /\ pc = "call"
    /\ CallOutcome = "build_failed"
    /\ Visit(arg.dir)
    /\ Proceed("build_failed")
    /\ UNCHANGED <<gitignoreFile, markers, include_paths, exclude_paths, dry_run,
                   arg, reported, svVars,
                   envVars, markers0>>

\* traverse, lines 57-68: dir's matcher is pushed and dir is listed
TraverseDescend ==
    /\ pc = "call"
    /\ CallOutcome = "descend"
    /\ arg.dir \notin faults.read_dir
    /\ Visit(arg.dir)
    /\ Proceed("descend")
    /\ UNCHANGED <<gitignoreFile, markers, include_paths, exclude_paths, dry_run,
                   arg, reported, svVars,
                   envVars, markers0>>

\* a comparison with the wrong name
is_git_without_dot(entry) == file_name(entry) = "git"

\* entry.file_name() == ".git"
is_dot_git(entry) == file_name(entry) = ".git"

\* the entry the loop over entries looks at next
Entry == Head(Top.entries)

\* a test that takes every entry for a directory
is_dir_always(entry) == TRUE

\* file_type.is_dir()
is_dir(entry) == file_type[entry] = "dir"

\* the entry itself, or its file type, cannot be read
EntryUnreadable == Entry \in faults.entry \cup faults.file_type

NextEntry == frames' = [frames EXCEPT ![Len(frames)].entries = Tail(@)]

\* traverse, lines 86-88: the entry is no directory
SkipNonDir ==
    /\ pc = "loop"
    /\ Top.entries # <<>>
    /\ ~EntryUnreadable
    /\ ~is_dir(Entry)
    /\ NextEntry
    /\ UNCHANGED <<gitignoreFile, markers, include_paths, exclude_paths, dry_run,
                   idx, pc, arg, gitignore_stack, reported, visited, listed,
                   built, svVars,
                   envVars, markers0>>

\* traverse, lines 89-92: the entry is named .git
SkipDotGit ==
    /\ pc = "loop"
    /\ Top.entries # <<>>
    /\ ~EntryUnreadable
    /\ is_dir(Entry)
    /\ is_dot_git(Entry)
    /\ NextEntry
    /\ UNCHANGED <<gitignoreFile, markers, include_paths, exclude_paths, dry_run,
                   idx, pc, arg, gitignore_stack, reported, visited, listed,
                   built, svVars,
                   envVars, markers0>>

\* traverse, lines 94-95: the recursive call for a directory entry
Recurse ==
    /\ pc = "loop"
    /\ Top.entries # <<>>
    /\ ~EntryUnreadable
    /\ is_dir(Entry)
    /\ ~is_dot_git(Entry)
    /\ NextEntry
    /\ arg' = [dir |-> Entry, exclude_paths |-> Top.excl]
    /\ pc' = "call"
    /\ UNCHANGED <<gitignoreFile, markers, include_paths, exclude_paths, dry_run,
                   idx, gitignore_stack, reported, visited, listed, built, svVars,
                   envVars, markers0>>

\* traverse, line 98: every entry is done; the StackVec is dropped
Return ==
    /\ pc = "loop"
    /\ Top.entries = <<>>
    /\ gitignore_stack' = SVDrop([vec |-> gitignore_stack, pushed |-> Top.pushed])
    /\ frames' = Pop(frames)
    /\ ReturnOk(Pop(frames))
    /\ UNCHANGED <<gitignoreFile, markers, include_paths, exclude_paths, dry_run,
                   arg, reported, visited, listed, built, svVars,
                   envVars, markers0>>

\* traverse, line 95: the recursive call failed and `?` returns its error;
\* the StackVec is dropped
Unwind ==
    /\ pc = "unwind"
    /\ gitignore_stack' = SVDrop([vec |-> gitignore_stack, pushed |-> Top.pushed])
    /\ frames' = Pop(frames)
    /\ ReturnErr(Pop(frames))
    /\ UNCHANGED <<gitignoreFile, markers, include_paths, exclude_paths, dry_run,
                   arg, reported, visited, listed, built, svVars,
                   envVars, markers0>>

\* traverse, lines 57-68: dir's matcher is built and pushed, read_dir(dir)
\* fails; the StackVec is dropped
TraverseReadFailed ==
    /\ pc = "call"
    /\ CallOutcome = "descend"
    /\ arg.dir \in faults.read_dir
    /\ Visit(arg.dir)
    /\ LET b  == maybe_build_gitignore(arg.dir, gitignoreFile[arg.dir])
           s0 == [vec |-> gitignore_stack, pushed |-> 0]
           sv == IF b.some THEN SVPush(s0, b.gi) ELSE s0
       IN  /\ built' = IF gitignoreFile[arg.dir].exists
                       THEN built \cup {<<idx, arg.dir>>} ELSE built
           /\ gitignore_stack' = SVDrop(sv)
    /\ OnReadDirError(frames)
    /\ UNCHANGED <<gitignoreFile, markers, include_paths, exclude_paths, dry_run,
                   arg, frames, reported, listed, svVars, envVars, markers0>>

\* traverse, lines 71-77: the entry cannot be read
SkipEntryError ==
    /\ pc = "loop"
    /\ Top.entries # <<>>
    /\ Entry \in faults.entry
    /\ NextEntry
    /\ UNCHANGED <<gitignoreFile, markers, include_paths, exclude_paths, dry_run,
                   idx, pc, arg, gitignore_stack, reported, visited, listed,
                   built, svVars, envVars, markers0>>

\* traverse, lines 79-85: the file type of the entry cannot be read
SkipFileTypeError ==
    /\ pc = "loop"
    /\ Top.entries # <<>>
    /\ Entry \notin faults.entry
    /\ Entry \in faults.file_type
    /\ NextEntry
    /\ UNCHANGED <<gitignoreFile, markers, include_paths, exclude_paths, dry_run,
                   idx, pc, arg, gitignore_stack, reported, visited, listed,
                   built, svVars, envVars, markers0>>

-----------------------------------------------------------------------------
(* main.rs: the loop over the include paths *)

\* a loop that goes on with the next include path after the error
OnRootErrorContinue(i) == [pc |-> "main", idx |-> i + 1]

\* main, line 60: `?` on the canonicalization error returns it from main
OnRootError(i) == [pc |-> "failed", idx |-> i]

\* main, lines 55-60: the include path cannot be canonicalized
MainCanonFailed ==
    /\ pc = "main"
    /\ idx <= Len(include_paths)
    /\ ~canonicalize(include_paths[idx]).ok
    /\ pc' = OnRootError(idx).pc
    /\ idx' = OnRootError(idx).idx
    /\ UNCHANGED <<gitignoreFile, markers, include_paths, exclude_paths, dry_run,
                   arg, gitignore_stack, frames, reported, visited, listed,
                   built, svVars,
                   envVars, markers0>>

\* a stack that starts with a matcher built from the .gitignore of r
StackOfOuterMatcher == <<[root |-> R, rules |-> GAll.rules]>>

\* find_directory_to_ignore, line 15: Vec::new()
NewStack == <<>>

\* main, line 61 and find_directory_to_ignore: a fresh stack, traverse(root)
MainFind ==
    /\ pc = "main"
    /\ idx <= Len(include_paths)
    /\ canonicalize(include_paths[idx]).ok
    /\ gitignore_stack' = NewStack
    /\ markers0' = markers
    /\ arg' = [dir |-> canonicalize(include_paths[idx]).path,
               exclude_paths |-> exclude_paths]
    /\ pc' = "call"
    /\ UNCHANGED <<gitignoreFile, markers, include_paths, exclude_paths, dry_run,
                   idx, frames, reported, visited, listed, built, svVars,
                   envVars>>

\* main, lines 64-65: every include path is done
MainDone ==
    /\ pc = "main"
    /\ idx > Len(include_paths)
    /\ pc' = "done"
    /\ UNCHANGED <<gitignoreFile, markers, include_paths, exclude_paths, dry_run,
                   idx, arg, gitignore_stack, frames, reported, visited, listed,
                   built, svVars,
                   envVars, markers0>>

-----------------------------------------------------------------------------
(* The walk *)

SeqsUpTo(S, n) == UNION {[1..k -> S] : k \in 0..n}

RootChoices == {R, Link, Missing}

ExcludeChoices == {R, RA, RAT}

NoMarkers == [d \in Nodes |-> {}]

\* the tree as it is: every node of Dirs a directory, every other a plain file
TreeTypes == [n \in Nodes |-> IF n \in Dirs THEN "dir" ELSE "file"]

NoFaults == [read_dir |-> {}, entry |-> {}, file_type |-> {}]

\* before and markers are the marker files before and after the earlier run
NoPrevious ==
    [set |-> FALSE, reported |-> <<>>, visited |-> {}, ended |-> "",
     before |-> NoMarkers, markers |-> NoMarkers]

\* no read fails, the program runs once
EnvPlain ==
    /\ file_type = TreeTypes
    /\ faults = NoFaults
    /\ previous = NoPrevious

InitFiles ==
    {[d \in Nodes |-> CASE d = R    -> top
                       [] d = RA   -> mid
                       [] d = RAT  -> GY
                       [] d = RGit -> GTarget
                       [] OTHER    -> NoFile] :
        top \in {NoFile, GTarget, GY, GAll, GTargetNeg},
        mid \in {NoFile, GNegTarget, GY, BadFile}}

InitMarkers ==
    {NoMarkers, [NoMarkers EXCEPT ![RAT] = {".deja-dup-ignore"}]}

SVIdle ==
    /\ vec = <<>>
    /\ scopes = <<>>
    /\ dropped = [set |-> FALSE, depth |-> 0, pushed |-> 0, base |-> <<>>, before |-> <<>>,
                  after |-> <<>>]

Init ==
    /\ gitignoreFile \in InitFiles
    /\ markers \in InitMarkers
    /\ include_paths \in SeqsUpTo(RootChoices, MaxRoots) \ {<<>>}
    /\ exclude_paths \in SeqsUpTo(ExcludeChoices, MaxExclude)
    /\ dry_run \in BOOLEAN
    /\ idx = 1
    /\ pc = "main"
    /\ arg = [dir |-> <<>>, exclude_paths |-> <<>>]
    /\ gitignore_stack = <<>>
    /\ frames = <<>>
    /\ reported = <<>>
    /\ visited = {}
    /\ listed = {}
    /\ built = {}
    /\ markers0 = markers
    /\ EnvPlain
    /\ SVIdle

Next ==
    \/ MainCanonFailed
    \/ MainFind
    \/ MainDone
    \/ TraverseExcluded
    \/ TraverseMarked
    \/ TraverseIgnored
    \/ TraverseBuildFailed
    \/ TraverseDescend
    \/ SkipNonDir
    \/ SkipDotGit
    \/ Recurse
    \/ Return
    \/ Unwind

Spec == Init /\ [][Next]_vars

-----------------------------------------------------------------------------
(* The walk of one root over a tree with reads that fail, and with r/a/y *)
(* either a plain file or a directory                                    *)

TypeChoices == {TreeTypes, [TreeTypes EXCEPT ![RAY] = "dir"]}

\* no read fails, or one kind of read fails for r/a or for r/a/target
FaultChoices ==
    {NoFaults} \cup
    {[NoFaults EXCEPT ![kind] = {d}] :
        kind \in {"read_dir", "entry", "file_type"}, d \in {RA, RAT}}

InitF ==
    /\ gitignoreFile \in InitFiles
    /\ markers \in InitMarkers
    /\ include_paths \in {<<root>> : root \in RootChoices}
    /\ exclude_paths \in SeqsUpTo(ExcludeChoices, MaxExclude)
    /\ dry_run \in BOOLEAN
    /\ idx = 1
    /\ pc = "main"
    /\ arg = [dir |-> <<>>, exclude_paths |-> <<>>]
    /\ gitignore_stack = <<>>
    /\ frames = <<>>
    /\ reported = <<>>
    /\ visited = {}
    /\ listed = {}
    /\ built = {}
    /\ markers0 = markers
    /\ file_type \in TypeChoices
    /\ faults \in FaultChoices
    /\ previous = NoPrevious
    /\ SVIdle

NextF ==
    \/ Next
    \/ TraverseReadFailed
    \/ SkipEntryError
    \/ SkipFileTypeError

SpecF == InitF /\ [][NextF]_vars

-----------------------------------------------------------------------------
(* The program run twice over the same tree, with the callback that writes *)
(* marker files                                                            *)

\* main is started a second time; what the first run created is still there
Rerun ==
    /\ pc \in {"done", "failed"}
    /\ ~previous.set
    /\ previous' = [set      |-> TRUE,
                    reported |-> reported,
                    visited  |-> visited,
                    ended    |-> pc,
                    before   |-> previous.before,
                    markers  |-> markers]
    /\ idx' = 1
    /\ pc' = "main"
    /\ arg' = [dir |-> <<>>, exclude_paths |-> <<>>]
    /\ gitignore_stack' = <<>>
    /\ reported' = <<>>
    /\ visited' = {}
    /\ listed' = {}
    /\ built' = {}
    /\ markers0' = markers
    /\ UNCHANGED <<gitignoreFile, markers, include_paths, exclude_paths, dry_run,
                   frames, file_type, faults, svVars>>

InitR ==
    /\ gitignoreFile \in InitFiles
    /\ markers \in InitMarkers
    /\ include_paths \in SeqsUpTo(RootChoices, MaxRoots) \ {<<>>}
    /\ exclude_paths \in SeqsUpTo(ExcludeChoices, MaxExclude)
    /\ dry_run = FALSE
    /\ idx = 1
    /\ pc = "main"
    /\ arg = [dir |-> <<>>, exclude_paths |-> <<>>]
    /\ gitignore_stack = <<>>
    /\ frames = <<>>
    /\ reported = <<>>
    /\ visited = {}
    /\ listed = {}
    /\ built = {}
    /\ markers0 = markers
    /\ file_type = TreeTypes
    /\ faults = NoFaults
    /\ previous = [NoPrevious EXCEPT !.before = markers]
    /\ SVIdle

NextR ==
    \/ Next
    \/ Rerun

SpecR == InitR /\ [][NextR]_vars

-----------------------------------------------------------------------------
(* stack_vec.rs on its own: StackVecs nested over one vector *)

InitValues == {1, 2}

\* the values the StackVec at nesting depth d may push as its k-th value
PushValues(d, k) == {10 * d + k}

\* StackVec::new over vec, or over the innermost StackVec's inner()
SVNew ==
    /\ Len(scopes) < MaxScopes
    /\ scopes' = Append(scopes, [pushed |-> 0, base |-> vec, own |-> <<>>])
    /\ UNCHANGED <<vec, dropped, walkVars>>

\* StackVec::push on the innermost StackVec (the outer ones are borrowed)
SVPushValue ==
    /\ scopes # <<>>
    /\ scopes[Len(scopes)].pushed < MaxPush
    /\ \E value \in PushValues(Len(scopes), scopes[Len(scopes)].pushed + 1) :
           LET sv == SVPush([vec |-> vec, pushed |-> scopes[Len(scopes)].pushed], value)
           IN  /\ vec' = sv.vec
               /\ scopes' = [scopes EXCEPT ![Len(scopes)].pushed = sv.pushed,
                                            ![Len(scopes)].own = Append(@, value)]
    /\ UNCHANGED <<dropped, walkVars>>

\* the innermost StackVec goes out of scope
SVDropScope ==
    /\ scopes # <<>>
    /\ vec' = SVDrop([vec |-> vec, pushed |-> scopes[Len(scopes)].pushed])
    /\ scopes' = Pop(scopes)
    /\ dropped' = [set    |-> TRUE,
                   depth  |-> Len(scopes),
                   pushed |-> scopes[Len(scopes)].pushed,
                   base   |-> scopes[Len(scopes)].base,
                   before |-> vec,
                   after  |-> vec']
    /\ UNCHANGED walkVars

WalkIdle ==
    /\ gitignoreFile = [d \in Nodes |-> NoFile]
    /\ markers = NoMarkers
    /\ include_paths = <<>>
    /\ exclude_paths = <<>>
    /\ dry_run = TRUE
    /\ idx = 1
    /\ pc = "done"
    /\ arg = [dir |-> <<>>, exclude_paths |-> <<>>]
    /\ gitignore_stack = <<>>
    /\ frames = <<>>
    /\ reported = <<>>
    /\ visited = {}
    /\ listed = {}
    /\ built = {}
    /\ markers0 = NoMarkers
    /\ EnvPlain

InitSV ==
    /\ WalkIdle
    /\ vec \in SeqsUpTo(InitValues, MaxInitLen)
    /\ scopes = <<>>
    /\ dropped = [set |-> FALSE, depth |-> 0, pushed |-> 0, base |-> <<>>, before |-> <<>>,
                  after |-> <<>>]

NextSV ==
    \/ SVNew
    \/ SVPushValue
    \/ SVDropScope

SpecSV == InitSV /\ [][NextSV]_vars

-----------------------------------------------------------------------------
(* What the claims speak of *)

Runs == 1..Len(include_paths)

\* the directory the walk of the run-th include path starts from
RootOf(run) == canonicalize(include_paths[run]).path

\* how often the callback was invoked for d in the walk of one root
Count(run, d) ==
    Cardinality({i \in DOMAIN reported : reported[i] = [run |-> run, dir |-> d]})

\* how often the callback was invoked for d in the whole run
CountAll(d) == Cardinality({i \in DOMAIN reported : reported[i].dir = d})

\* d equals or lies inside a path of the exclusion list
PathExcluded(d) ==
    \E i \in DOMAIN exclude_paths :
        d = exclude_paths[i] \/ starts_with(d, exclude_paths[i])

ProperAncestor(a, d) == Len(a) < Len(d) /\ starts_with(d, a)

\* what the .gitignore of directory anc says about directory d
Verdict(anc, d) ==
    IF gitignoreFile[anc].exists /\ gitignoreFile[anc].ok
    THEN matched([root |-> anc, rules |-> gitignoreFile[anc].rules], d, TRUE)
    ELSE "None"

\* the ancestors of d whose .gitignore the walk of the run-th root can hold
AncestorsInWalk(run, d) ==
    {anc \in Dirs : ProperAncestor(anc, d) /\ starts_with(anc, RootOf(run))}

\* the .gitignore of some ancestor of d, at or below the root, ignores d
Flagged(run, d) == \E anc \in AncestorsInWalk(run, d) : Verdict(anc, d) = "Ignore"

\* git's reading: the nearest ancestor whose .gitignore has a rule for d decides
NearestVerdict(run, d) ==
    LET having == {anc \in AncestorsInWalk(run, d) : Verdict(anc, d) # "None"}
    IN  IF having = {} THEN "None"
        ELSE Verdict(CHOOSE anc \in having : \A o \in having : Len(o) <= Len(anc), d)

RecognisedByName(d) == file_to_create(file_name(d)) # "none"

Walked(run, d) == \E v \in visited : v.run = run /\ v.dir = d

-----------------------------------------------------------------------------
(* The walk *)

\* C1 as stated, read of the directories the walk comes to that are neither
\* excluded nor marked: each one that an inherited rule matches, or that is
\* recognised by name, is reported exactly once and is not descended into.
C1_Original ==
    \A v \in visited :
        (/\ ProperAncestor(RootOf(v.run), v.dir)
         /\ ~PathExcluded(v.dir)
         /\ ~v.marked
         /\ (Flagged(v.run, v.dir) \/ RecognisedByName(v.dir)))
            => (Count(v.run, v.dir) = 1 /\ <<v.run, v.dir>> \notin listed)

\* C1: a directory the walk of a root comes to is reported exactly once in
\* that walk, and not descended into, if it is not excluded, holds no marker
\* file and the .gitignore of one of its ancestors ignores it; otherwise it is
\* not reported, whatever its name; and nothing the walk did not come to is
\* reported.
C1_ReportedOnceIfFlagged ==
    /\ \A v \in visited :
           /\ Count(v.run, v.dir) =
                  (IF ~PathExcluded(v.dir) /\ ~v.marked /\ Flagged(v.run, v.dir)
                   THEN 1 ELSE 0)
           /\ Count(v.run, v.dir) = 1 => <<v.run, v.dir>> \notin listed
    /\ \A i \in DOMAIN reported : Walked(reported[i].run, reported[i].dir)

\* the root's rule reported r/a/target two levels down, below a directory
\* that was descended into, and the run ended
C1_Witness ==
    /\ pc = "done"
    /\ Count(1, RAT) = 1
    /\ Verdict(R, RAT) = "Ignore"
    /\ <<1, RA>> \in listed
    /\ <<1, RAT>> \notin listed

\* C2: a directory equal to or inside an excluded path is never reported, never
\* listed, and its .gitignore is never built nor pushed on the matcher stack.
C2_PruningSilentAndTotal ==
    \A d \in Dirs :
        PathExcluded(d) =>
            /\ CountAll(d) = 0
            /\ \A run \in Runs : <<run, d>> \notin listed /\ <<run, d>> \notin built
            /\ \A k \in DOMAIN gitignore_stack : gitignore_stack[k].root # d
            /\ \A k \in DOMAIN frames : frames[k].dir # d

\* the walk came to an excluded directory that an ancestor's rule ignores, that
\* has a .gitignore of its own and a directory inside it
C2_Witness ==
    \E v \in visited :
        /\ PathExcluded(v.dir)
        /\ ~v.marked
        /\ Flagged(v.run, v.dir)
        /\ gitignoreFile[v.dir].exists
        /\ Entries(v.dir) \cap Dirs # {}

\* C3: a directory that holds a marker file when the walk comes to it is not
\* reported, not listed, its .gitignore is not built and nothing inside it is
\* walked, also when an ancestor's rule ignores it.
C3_MarkerShortCircuit ==
    \A v \in visited :
        v.marked =>
            /\ Count(v.run, v.dir) = 0
            /\ <<v.run, v.dir>> \notin listed
            /\ <<v.run, v.dir>> \notin built
            /\ \A w \in visited : w.run = v.run => ~ProperAncestor(v.dir, w.dir)

\* the walk came to a marked directory, not excluded, that an ancestor's rule
\* ignores
C3_Witness ==
    \E v \in visited :
        /\ v.marked
        /\ ~PathExcluded(v.dir)
        /\ Flagged(v.run, v.dir)

\* C4: once a directory is reported, the same walk comes to nothing inside it,
\* does not list it, and neither builds nor pushes its .gitignore.
C4_NoDescentPastMatch ==
    \A i \in DOMAIN reported :
        LET r == reported[i]
        IN  /\ \A v \in visited : v.run = r.run => ~ProperAncestor(r.dir, v.dir)
            /\ \A j \in DOMAIN reported :
                   reported[j].run = r.run => ~ProperAncestor(r.dir, reported[j].dir)
            /\ <<r.run, r.dir>> \notin listed
            /\ <<r.run, r.dir>> \notin built
            /\ idx = r.run =>
                   /\ \A k \in DOMAIN gitignore_stack : gitignore_stack[k].root # r.dir
                   /\ \A k \in DOMAIN frames : frames[k].dir # r.dir

\* r/a/target, which has a .gitignore and a directory inside it, was reported
\* and the run ended
C4_Witness ==
    /\ pc = "done"
    /\ CountAll(RAT) > 0
    /\ gitignoreFile[RAT].exists
    /\ RATY \in Entries(RAT)

\* C5: a rule of an ancestor's .gitignore applies at every depth below it until
\* a closer .gitignore overrides it: a directory is reported exactly if the
\* nearest ancestor whose .gitignore has a rule for it ignores it.
C5_NearestRuleDecides ==
    \A v \in visited :
        (~PathExcluded(v.dir) /\ ~v.marked) =>
            (Count(v.run, v.dir) = 1 <=> NearestVerdict(v.run, v.dir) = "Ignore")

C7_Original ==
    \A g \in Dirs :
        file_name(g) = ".git" =>
            /\ CountAll(g) = 0
            /\ \A run \in Runs : <<run, g>> \notin listed
            /\ \A d \in Dirs : ProperAncestor(g, d) => CountAll(d) = 0

\* C7: a directory named .git that is an entry of a walked directory is skipped:
\* the walk comes to a directory named .git only as its root, comes to a
\* directory inside one only from a root at or below it, and never reports a
\* directory named .git.
C7_DotGitEntriesSkipped ==
    /\ \A v \in visited :
           /\ file_name(v.dir) = ".git" => v.dir = RootOf(v.run)
           /\ \A g \in Dirs :
                  (file_name(g) = ".git" /\ ProperAncestor(g, v.dir))
                      => starts_with(RootOf(v.run), g)
    /\ \A i \in DOMAIN reported : file_name(reported[i].dir) # ".git"

\* the walk of root r, whose .gitignore has a rule that ignores .git, is over
C7_Witness ==
    \E run \in Runs :
        /\ RootOf(run) = R
        /\ <<run, R>> \in listed
        /\ idx > run
        /\ Verdict(R, RGit) = "Ignore"

\* C10 as stated: when the run is over, every include path that can be
\* canonicalized has been walked, also when another one cannot.
C10_Original ==
    pc \in {"done", "failed"} =>
        \A run \in Runs :
            canonicalize(include_paths[run]).ok => Walked(run, RootOf(run))

\* C10: an include path that cannot be canonicalized ends the run with that
\* error: the roots listed before it have been walked, no root listed after it
\* is walked, and the run ends as done only if every include path could be
\* canonicalized.
C10_RootErrorEndsRun ==
    /\ \A v \in visited :
           \A k \in Runs : k < v.run => canonicalize(include_paths[k]).ok
    /\ \A k \in Runs :
           k < idx => canonicalize(include_paths[k]).ok /\ Walked(k, RootOf(k))
    /\ \A k \in Runs :
           (k = idx /\ ~canonicalize(include_paths[k]).ok) =>
               /\ pc \in {"main", "failed"}
               /\ \A v \in visited : v.run < k
    /\ pc = "done" => \A k \in Runs : canonicalize(include_paths[k]).ok

\* the run ended at an include path that cannot be canonicalized, with a good
\* include path listed after it that was not walked
C10_Witness ==
    /\ pc = "failed"
    /\ idx < Len(include_paths)
    /\ ~canonicalize(include_paths[idx]).ok
    /\ canonicalize(include_paths[idx + 1]).ok
    /\ ~Walked(idx + 1, RootOf(idx + 1))

-----------------------------------------------------------------------------
(* StackVec *)

\* C8: when a StackVec is dropped, exactly the entries it pushed are removed
\* from the tail, and the vector equals the one it was created over.
C8_ScopeExitRestores ==
    dropped.set =>
        /\ dropped.after = dropped.base
        /\ Len(dropped.after) = Len(dropped.before) - dropped.pushed
        /\ dropped.after = SubSeq(dropped.before, 1, Len(dropped.after))

\* a StackVec that made MaxPush pushes over a non-empty vector was dropped
C8_Witness ==
    /\ dropped.set
    /\ dropped.pushed = MaxPush
    /\ dropped.base # <<>>

\* C9: a child StackVec made over a parent's inner() removes only its own
\* pushes when dropped: the parent then sees the vector as it was when the child
\* was made, the parent's own pushes intact above the vector it was made over.
C9_NestedRestores ==
    /\ \A i \in DOMAIN scopes :
           scopes[i].base \o scopes[i].own
               = (IF i < Len(scopes) THEN scopes[i + 1].base ELSE vec)
    /\ \A i \in DOMAIN scopes : scopes[i].pushed = Len(scopes[i].own)
    /\ (dropped.set /\ dropped.depth > 1) => dropped.after = dropped.base

\* a child that pushed was dropped and its parent, which pushed too, is the
\* innermost StackVec again and has not been touched since
C9_Witness ==
    /\ dropped.set
    /\ dropped.depth > 1
    /\ dropped.pushed > 0
    /\ Len(scopes) = dropped.depth - 1
    /\ scopes[Len(scopes)].pushed > 0
    /\ vec = dropped.after

-----------------------------------------------------------------------------
(* The walk over a tree with failing reads and with r/a/y of either kind *)

ParentOf(d) == SubSeq(d, 1, Len(d) - 1)

\* the walk of the run-th root has returned Ok to main
WalkReturnedOk(run) == run < idx /\ pc \in {"main", "done"}

\* C11: the callback is only ever invoked with directories.  Of an entry of
\* a listed directory that can be read, that a rule of an ancestor's
\* .gitignore matches by name, that is neither excluded nor marked nor named
\* .git, the finished walk has reported the entry if and only if it is a
\* directory: the plain file is never reported, the directory in the same
\* place is.
C11_DirectoriesOnly ==
    /\ \A i \in DOMAIN reported : file_type[reported[i].dir] = "dir"
    /\ \A run \in Runs : \A n \in Nodes :
           ( /\ WalkReturnedOk(run)
             /\ <<run, ParentOf(n)>> \in listed
             /\ n \notin faults.entry \cup faults.file_type
             /\ Flagged(run, n)
             /\ ~PathExcluded(n)
             /\ markers0[n] = {}
             /\ file_name(n) # ".git" )
           => (Count(run, n) > 0 <=> file_type[n] = "dir")

\* r/a/y is a plain file that the rule "y" matches; r/a was listed, the walk
\* is over and r/a/y was not reported
C11_Witness ==
    /\ pc = "done"
    /\ file_type[RAY] = "file"
    /\ Flagged(1, RAY)
    /\ <<1, RA>> \in listed
    /\ CountAll(RAY) = 0
    /\ CountAll(RY) = 1

-----------------------------------------------------------------------------
(* The exclusion list and the matcher stack along the recursion *)

Elems(s) == {s[i] : i \in DOMAIN s}

\* the exclusion list the k-th call in progress received
Received(k) == IF k = 1 THEN exclude_paths ELSE frames[k - 1].excl

\* C12 as stated, read of the calls below the root: the exclusion list
\* passed to traverse for D holds only paths equal to D or inside D.
C12_Original ==
    (pc = "call" /\ frames # <<>>) =>
        \A e \in Elems(arg.exclude_paths) : e = arg.dir \/ starts_with(e, arg.dir)

\* C12: the root receives the configured exclusion list.  The list a call
\* for D hands to the calls for D's entries holds only paths strictly inside
\* D (so the list a call below the root receives holds only paths inside its
\* parent directory, not necessarily inside itself) and is drawn from the
\* list the call for D received.
C12_ExclusionListNarrows ==
    /\ \A k \in DOMAIN frames :
           /\ \A e \in Elems(frames[k].excl) :
                  starts_with(e, frames[k].dir) /\ e # frames[k].dir
           /\ Elems(frames[k].excl) \subseteq Elems(Received(k))
    /\ pc = "call" =>
           arg.exclude_paths = IF frames = <<>> THEN exclude_paths ELSE Top.excl

\* the call for r/y receives the excluded path r/a/target, which lies in
\* r/y's parent but not in r/y
C12_Witness ==
    /\ pc = "call"
    /\ frames # <<>>
    /\ arg.dir = RY
    /\ arg.exclude_paths = <<RAT>>

RECURSIVE StackBelow(_, _)
\* the matchers of the directories from root down to p that have a
\* .gitignore, root first
StackBelow(root, p) ==
    LET above == IF p = root THEN <<>> ELSE StackBelow(root, ParentOf(p))
    IN  IF gitignoreFile[p].exists
        THEN Append(above, [root |-> p, rules |-> gitignoreFile[p].rules])
        ELSE above

\* C13: when a directory D is about to be tested the stack holds exactly the
\* matchers of D's proper ancestors from the root down to D's parent that
\* have a .gitignore, root first (none for the root itself); and between the
\* entries of a directory the stack is the same each time, whatever the
\* subtree walked in between pushed.
C13_StackIsAncestorsMatchers ==
    /\ (pc = "call" /\ frames = <<>>) => gitignore_stack = <<>>
    /\ (pc = "call" /\ frames # <<>>) =>
           /\ ParentOf(arg.dir) = Top.dir
           /\ gitignore_stack = StackBelow(RootOf(idx), ParentOf(arg.dir))
    /\ pc = "loop" => gitignore_stack = StackBelow(RootOf(idx), Top.dir)

\* r/y is about to be tested after the subtree of its sibling r/a, which
\* pushed a matcher of its own, was walked: the stack holds r's matcher only
C13_Witness ==
    /\ pc = "call"
    /\ arg.dir = RY
    /\ <<idx, RAT>> \in {<<v.run, v.dir>> : v \in visited}
    /\ gitignoreFile[RA].exists
    /\ gitignoreFile[R].exists
    /\ Len(gitignore_stack) = 1
    /\ gitignore_stack[1].root = R

\* the .gitignore of d was handed to the builder in the run-th walk and
\* could not be built
BuildFailedAt(run, d) == <<run, d>> \in built /\ ~gitignoreFile[d].ok

\* C14: once the matcher of a directory D cannot be built, the call for D
\* has returned the error and every enclosing call hands it on up to main:
\* D is not listed, no directory below D is visited or reported, nothing
\* runs after the error but the returns, and the stack is what it was
\* before D was entered, shrinking further as the enclosing calls return.
C14_BuildFailurePropagates ==
    \A run \in Runs : \A d \in Dirs :
        BuildFailedAt(run, d) =>
            /\ run = idx
            /\ pc \in {"unwind", "failed"}
            /\ <<run, d>> \notin listed
            /\ \A v \in visited : v.run = run => ~ProperAncestor(d, v.dir)
            /\ \A i \in DOMAIN reported :
                   reported[i].run = run => ~ProperAncestor(d, reported[i].dir)
            /\ \A k \in DOMAIN frames : ProperAncestor(frames[k].dir, d)
            /\ gitignore_stack =
                   IF frames = <<>> THEN <<>>
                   ELSE StackBelow(RootOf(run), Top.dir)

\* the .gitignore of r/a could not be built; the error is on its way up and
\* the stack holds r's matcher as before r/a was entered
C14_Witness ==
    /\ pc = "unwind"
    /\ BuildFailedAt(idx, RA)
    /\ Len(frames) = 1
    /\ Len(gitignore_stack) = 1
    /\ gitignore_stack[1].root = R

-----------------------------------------------------------------------------
(* Reads that fail *)

Unreadable(e) == e \in faults.entry \cup faults.file_type

\* C15: a directory that cannot be listed, an entry that cannot be read and
\* an entry whose file type cannot be read do not make a call fail: an error
\* is only ever on its way up after a matcher could not be built or the
\* root could not be canonicalized.  The directory that cannot be listed is
\* not listed and nothing below it is visited; the entry that cannot be read
\* is not visited, nor anything below it.  The stack between the entries of
\* a directory and after the walk is what it was before, and in a walk that
\* returned Ok every readable sibling directory not named .git of a failing
\* directory or entry was visited.
C15_ReadFailuresNotFatal ==
    /\ pc = "unwind" => \E d \in Dirs : BuildFailedAt(idx, d)
    /\ pc = "failed" =>
           \/ ~canonicalize(include_paths[idx]).ok
           \/ \E d \in Dirs : BuildFailedAt(idx, d)
    /\ \A v \in visited :
           /\ \A d \in faults.read_dir :
                  <<v.run, d>> \notin listed /\ ~ProperAncestor(d, v.dir)
           /\ \A e \in Nodes :
                  (Unreadable(e) /\ e # RootOf(v.run)) =>
                      v.dir # e /\ ~ProperAncestor(e, v.dir)
    /\ pc = "loop" => gitignore_stack = StackBelow(RootOf(idx), Top.dir)
    /\ (pc = "main" /\ idx > 1) => gitignore_stack = <<>>
    /\ \A run \in Runs : \A n \in Nodes :
           ( /\ WalkReturnedOk(run)
             /\ <<run, ParentOf(n)>> \in listed
             /\ Unreadable(n) \/ n \in faults.read_dir )
           => \A s \in Entries(ParentOf(n)) :
                  (file_type[s] = "dir" /\ ~Unreadable(s) /\ file_name(s) # ".git")
                      => Walked(run, s)

\* r/a could not be listed after its matcher was pushed; the walk has gone
\* on to its sibling r/y, and the stack holds r's matcher only
C15_Witness ==
    /\ pc = "call"
    /\ arg.dir = RY
    /\ RA \in faults.read_dir
    /\ Walked(idx, RA)
    /\ <<idx, RA>> \in built
    /\ Len(gitignore_stack) = 1
    /\ gitignore_stack[1].root = R

-----------------------------------------------------------------------------
(* What one walk reports, and in which order *)

\* d held a marker file when the walk that just returned began
Marked0(d) == ".deja-dup-ignore" \in markers0[d] \/ "CACHEDIR.TAG" \in markers0[d]

RECURSIVE Descended(_, _)
\* the walk of the run-th root went into d: d and every directory from the
\* root down to d is neither excluded nor marked, and below the root neither
\* named .git nor ignored by a .gitignore of its ancestors
Descended(run, d) ==
    /\ ~PathExcluded(d)
    /\ ~Marked0(d)
    /\ d # RootOf(run) =>
           /\ file_name(d) # ".git"
           /\ ~Flagged(run, d)
           /\ Descended(run, ParentOf(d))

\* what the claim says the walk of the run-th root reports
Expected(run, d) ==
    /\ ProperAncestor(RootOf(run), d)
    /\ Flagged(run, d)
    /\ ~PathExcluded(d)
    /\ ~Marked0(d)
    /\ file_name(d) # ".git"
    /\ Descended(run, ParentOf(d))

\* C16: when the walk of a root has returned Ok, the callback was invoked,
\* once, for exactly the directories D below the root that a .gitignore of a
\* proper ancestor at or below the root ignores, that are not excluded, hold
\* no marker and are not named .git, and whose ancestors from the root down
\* to D's parent were all gone into; for no other directory was it invoked.
C16_ExactReportedSet ==
    (pc = "main" /\ idx > 1) =>
        \A d \in Dirs :
            Count(idx - 1, d) = IF Expected(idx - 1, d) THEN 1 ELSE 0

\* the walk of r has returned: r/a/target was reported; r/a/target/y, which
\* r's .gitignore ignores as well, was not, for r/a/target was not gone into
C16_Witness ==
    /\ pc = "main"
    /\ idx > 1
    /\ RootOf(idx - 1) = R
    /\ Count(idx - 1, RAT) = 1
    /\ Flagged(idx - 1, RATY)
    /\ Count(idx - 1, RATY) = 0
    /\ Count(idx - 1, RY) = 1

\* d is the entry e or lies below it
AtOrBelow(d, e) == d = e \/ ProperAncestor(e, d)

\* C17: for every call in progress, the entries still to be gone through are
\* the tail of the list read_dir yielded when the call listed its directory;
\* nothing at or below an entry still to come has been reported; and of two
\* callbacks of this walk at or below two entries of the directory, the one
\* at or below the entry enumerated first came first.
C17_DepthFirstInEnumerationOrder ==
    \A k \in DOMAIN frames :
        LET f    == frames[k]
            done == Len(f.read) - Len(f.entries)
        IN  /\ done >= 0
            /\ f.entries = SubSeq(f.read, done + 1, Len(f.read))
            /\ \A i \in DOMAIN reported : \A b \in DOMAIN f.read :
                   (reported[i].run = idx /\ AtOrBelow(reported[i].dir, f.read[b]))
                       => b <= done
            /\ \A i, j \in DOMAIN reported : \A a, b \in DOMAIN f.read :
                   ( /\ i < j
                     /\ reported[i].run = idx
                     /\ reported[j].run = idx
                     /\ AtOrBelow(reported[i].dir, f.read[a])
                     /\ AtOrBelow(reported[j].dir, f.read[b]) )
                   => a <= b

\* r/y was enumerated before r/a: r/y was reported first, r/a/target, below
\* r/a, second
C17_Witness ==
    /\ pc = "loop"
    /\ Len(frames) = 1
    /\ Top.dir = R
    /\ Top.entries = <<>>
    /\ \E a, b \in DOMAIN Top.read :
           a < b /\ Top.read[a] = RY /\ Top.read[b] = RA
    /\ Len(reported) = 2
    /\ reported[1].dir = RY
    /\ reported[2].dir = RAT

\* C18: the root of a walk is never passed to the callback in that walk,
\* whatever .gitignore files the root and the directories above it hold and
\* whatever the root is named: the call for the root finds the stack empty,
\* and no call ever finds a matcher of the directory it is for on the stack.
C18_RootNeverReported ==
    /\ \A run \in Runs :
           canonicalize(include_paths[run]).ok => Count(run, RootOf(run)) = 0
    /\ (pc = "call" /\ arg.dir = RootOf(idx) /\ frames = <<>>) =>
           gitignore_stack = <<>>
    /\ pc = "call" =>
           \A i \in DOMAIN gitignore_stack : gitignore_stack[i].root # arg.dir

\* the root r/.git, which the .gitignore of r ignores, was walked to the
\* end: its own .gitignore was built, r/.git/target reported, r/.git not
C18_Witness ==
    /\ pc = "done"
    /\ RootOf(1) = RGit
    /\ Verdict(R, RGit) = "Ignore"
    /\ <<1, RGit>> \in built
    /\ <<1, RGit>> \in listed
    /\ Count(1, RGitT) = 1
    /\ CountAll(RGit) = 0

-----------------------------------------------------------------------------
(* The program run a second time *)

\* the first run created a marker file in d
CreatedBefore(d) == previous.markers[d] # previous.before[d]

\* how often the first run invoked the callback for d
CountBefore(d) ==
    Cardinality({i \in DOMAIN previous.reported : previous.reported[i].dir = d})

\* in the second run no callback is invoked for a directory in which the
\* first run created a marker, the directory is not gone into, and no marker
\* is created in it again
MarkedOnceOnly ==
    \A d \in Dirs :
        CreatedBefore(d) =>
            /\ CountAll(d) = 0
            /\ \A run \in Runs : <<run, d>> \notin listed
            /\ markers[d] = previous.markers[d]

=============================================================================
